---- MODULE Spec2Model ----
(***************************************************************************)
(* Magic-link admin application: the sign-in authorization decision        *)
(* (src/lib/auth.ts), the whitelist and user administration routes         *)
(* (src/app/api/...), and the structured-response retry loop               *)
(* (src/lib/services/llm/llm.ts).                                          *)
(*                                                                         *)
(* Strings are sequences of one-character strings, so that toLowerCase,    *)
(* split, trim and the e-mail regular expression are computed character by *)
(* character as the JavaScript does.                                       *)
(***************************************************************************)
EXTENDS Integers, Sequences, FiniteSets, TLC

(***************************************************************************)
(* String helpers: the methods of String.prototype the code uses           *)
(***************************************************************************)

\* String.prototype.toLowerCase on one character of the model's alphabet.
LowerChar(c) ==
  CASE c = "U" -> "u"
    [] c = "V" -> "v"
    [] c = "W" -> "w"
    [] c = "A" -> "a"
    [] c = "B" -> "b"
    [] c = "C" -> "c"
    [] OTHER -> c

\* email.toLowerCase()
ToLowerCase(s) == [i \in 1..Len(s) |-> LowerChar(s[i])]

IsSpace(c) == c = " "

RECURSIVE TrimStart(_)
TrimStart(s) ==
  IF s # <<>> /\ IsSpace(Head(s)) THEN TrimStart(Tail(s)) ELSE s

RECURSIVE TrimEnd(_)
TrimEnd(s) ==
  IF s # <<>> /\ IsSpace(s[Len(s)]) THEN TrimEnd(SubSeq(s, 1, Len(s) - 1)) ELSE s

\* String.prototype.trim
Trim(s) == TrimEnd(TrimStart(s))

\* email.split("@"): the segments between the separators, always at least one.
RECURSIVE SplitFrom(_, _, _)
SplitFrom(s, i, cur) ==
  IF i > Len(s) THEN <<cur>>
  ELSE IF s[i] = "@" THEN <<cur>> \o SplitFrom(s, i + 1, <<>>)
  ELSE SplitFrom(s, i + 1, Append(cur, s[i]))

Split(s) == SplitFrom(s, 1, <<>>)

\* The value of an array index that does not exist.
Undefined == <<"undefined">>

\* email.split("@")[1]
EmailDomain(email) ==
  IF Len(Split(email)) >= 2 THEN Split(email)[2] ELSE Undefined

\* Array.prototype.includes
Includes(arr, x) == \E i \in 1..Len(arr) : arr[i] = x

\* /^[^\s@]+@[^\s@]+\.[^\s@]+$/ : one "@", no white space, and a "." inside the
\* part after the "@" with at least one character on each side of it.
EmailRegexTest(s) ==
  /\ \A i \in 1..Len(s) : ~IsSpace(s[i])
  /\ Len(Split(s)) = 2
  /\ Len(Split(s)[1]) >= 1
  /\ \E k \in 2..(Len(Split(s)[2]) - 1) : Split(s)[2][k] = "."


(***************************************************************************)
(* Bounds and input sets                                                   *)
(***************************************************************************)

\* Size of the pool the ids of whitelist rows are drawn from.
MaxRowId == 2

\* Concurrent requests in flight.
Procs == {"p1", "p2"}

D_ac == <<"a", ".", "c">>
D_dc == <<"d", ".", "c">>
E_u_ac == <<"u", "@", "a", ".", "c">>
E_v_bc == <<"v", "@", "b", ".", "c">>
E_V_bc == <<"V", "@", "b", ".", "c">>
E_w_bc == <<"w", "@", "b", ".", "c">>
E_u_Ac == <<"u", "@", "A", ".", "c">>
E_v_ac_bc == <<"v", "@", "a", ".", "c", "@", "b", ".", "c">>
E_sp_v_bc == <<" ", "v", "@", "b", ".", "c">>
E_v_b == <<"v", "@", "b">>
E_noAt == <<"v", "b", ".", "c">>

\* user.email absent (undefined, null or ""): all are falsy.
NoEmail == <<>>

\* The values authConfig.allowedEmailDomains may hold after start-up.
DomainConfigs == {<<>>, <<D_dc, D_ac>>}

\* The addresses a magic link is verified for (normalised by the provider).
SignInEmails == {E_u_ac, E_v_bc}

\* The "email" values of a POST /api/email-whitelist body.
PostEmails == {NoEmail, E_v_bc, E_V_bc, E_w_bc, E_sp_v_bc, E_v_b}

\* The "notes" values of a request body ("" also stands for an absent field).
NoteInputs == {"", "note"}

\* The "isAdmin" values of a PATCH /api/admin/users/[id] body, as JSON text.
IsAdminInputs == {"true", "false", "\"yes\""}

\* SQL NULL in a text column.
NULL == "NULL"

NoSession == 0

\* adapter-generated user ids: one per address, distinct.
UserId(email) ==
  CASE email = E_u_ac -> 1
    [] email = E_v_bc -> 2
    [] OTHER -> 3

UserIds == {UserId(e) : e \in SignInEmails}

\* Path parameters that name no user.
TargetIds == UserIds \cup {9}

RowIds == 1..MaxRowId

AdminKinds ==
  {"usersPATCH", "whitelistGET", "whitelistPOST", "whitelistDELETE", "whitelistPATCH"}

\* A JSON body of PATCH /api/account/update, by key; "absent" marks a missing
\* key, "s:" a string and "n:" a number.
AccountBody(name, image, isAdmin) == [name |-> name, image |-> image, isAdmin |-> isAdmin]

\* The bodies of PATCH /api/account/update.
AccountBodies ==
  {AccountBody("absent", "absent", "absent"),
   AccountBody("s:Ann", "absent", "absent"),
   AccountBody("n:5", "absent", "absent"),
   AccountBody("absent", "n:5", "absent"),
   AccountBody("s:Ann", "absent", "true")}

(***************************************************************************)
(* State                                                                   *)
(***************************************************************************)

VARIABLES
  allowedEmailDomains,  \* authConfig.allowedEmailDomains
  emailWhitelist,       \* table email_whitelist: set of rows
  users,                \* table user: set of [id, email, isAdmin]
  sessions,             \* table session: the user ids that hold a session
  req,                  \* the requests in flight, per process
  response,             \* the response being sent to the client (NoResponse: none)
  call,                 \* the last direct call of a function of auth.ts, and its result
  llm                   \* one call of answerStructured: its locals and what it sent

vars == <<allowedEmailDomains, emailWhitelist, users, sessions, req, response, call, llm>>

Idle ==
  [kind |-> "none", pc |-> "idle", userId |-> NoSession, email |-> NoEmail, notes |-> ""]

NoResponse ==
  [kind |-> "none", status |-> 0, error |-> "", email |-> NoEmail, isNewUser |-> FALSE,
   message |-> "", location |-> ""]

NoCall == [fn |-> "none", email |-> NoEmail, result |-> FALSE, queries |-> 0]

\* A JSON object with the keys the model uses; "absent" marks a missing key.
NoValue == [name |-> "absent", age |-> "absent", extra |-> "absent"]

\* No error thrown. A thrown error is its message, with the values the message
\* template interpolates kept apart.
NoError == [message |-> "none", maxRetries |-> 0, lastError |-> "undefined"]

\* No call of answerStructured is under way.
NoLlmCall ==
  [pc |-> "none", maxRetries |-> 0, attempt |-> 0, requests |-> <<>>,
   responses |-> <<>>, waits |-> <<>>, lastError |-> "undefined",
   value |-> NoValue, error |-> NoError]

\* NextResponse.json({ error }, { status }); error "" on success.
Response(kind, status, error) ==
  [NoResponse EXCEPT !.kind = kind, !.status = status, !.error = error]

\* A plausible slip: the error page tells a whitelist denial from the others.
ErrorPageMessageDetailed(error) ==
  CASE error = "AccessDenied" -> "This email is not on the whitelist."
    [] OTHER -> "An error occurred during authentication. Please try again."

\* /auth/error: errorMessages[error || "Default"] || errorMessages.Default
ErrorPageMessage(error) ==
  CASE error = "AccessDenied" ->
         "This email is not authorized to access ${appName}. Please contact an administrator for access."
    [] error = "Configuration" -> "There is a problem with the server configuration."
    [] error = "Verification" ->
         "The verification token has expired or has already been used."
    [] OTHER -> "An error occurred during authentication. Please try again."

\* /auth/signin, handleSubmit: the message set for the result of signIn()
SignInPageMessage(error, ok) ==
  IF error # ""
  THEN IF error = "AccessDenied"
       THEN "This email is not authorized to access this application. Please contact an administrator."
       ELSE "Something went wrong. Please try again."
  ELSE IF ok THEN "Check your email for a magic link!"
  ELSE "Something went wrong. Please try again."

\* The outcome of a magic-link verification: a redirect, to pages.error with
\* ?error= on failure, where the error page shows its message.
SignInResponse(error, email, isNewUser) ==
  [NoResponse EXCEPT !.kind = "signIn", !.status = 302, !.error = error,
                     !.email = email, !.isNewUser = isNewUser,
                     !.message = IF error = "" THEN "" ELSE ErrorPageMessage(error),
                     !.location = IF error = "" THEN "" ELSE "/auth/error"]

\* The outcome of a request for a magic link made from /auth/signin with
\* redirect: false: the result of signIn() and the message the page shows.
SignInRequestResponse(error, email) ==
  [NoResponse EXCEPT !.kind = "signInRequest", !.status = 200, !.error = error,
                     !.email = email,
                     !.message = SignInPageMessage(error, error = "")]

\* The outcome of the middleware: a redirect, or the request proceeds.
MiddlewareResponse(location) ==
  [NoResponse EXCEPT !.kind = "middleware",
                     !.status = IF location = "" THEN 200 ELSE 307,
                     !.location = location]

Init ==
  /\ allowedEmailDomains \in DomainConfigs
  /\ emailWhitelist = {}
  /\ users = {}
  /\ sessions = {}
  /\ req = [p \in Procs |-> Idle]
  /\ response = NoResponse
  /\ call = NoCall
  /\ llm = NoLlmCall


(***************************************************************************)
(* src/lib/auth.ts                                                         *)
(***************************************************************************)

\* A plausible slip: the domain rule is consulted only for whitelisted addresses.
IsEmailAllowedWhitelistOnly(email) ==
  \E row \in emailWhitelist : row.email = ToLowerCase(email)

\* A plausible slip: the whitelist is compared with the address as typed.
IsEmailAllowedAsTyped(email) ==
  IF Len(allowedEmailDomains) > 0 /\ Includes(allowedEmailDomains, EmailDomain(email))
  THEN TRUE
  ELSE \E row \in emailWhitelist : row.email = email

\* isEmailAllowed(email)
IsEmailAllowed(email) ==
  IF Len(allowedEmailDomains) > 0 /\ Includes(allowedEmailDomains, EmailDomain(email))
  THEN TRUE
  ELSE \E row \in emailWhitelist : row.email = ToLowerCase(email)

\* A plausible slip: every address that may sign in is made an admin.
ShouldBeAdminIfAllowed(email) == email # NoEmail /\ IsEmailAllowed(email)

\* adapter.createUser: shouldBeAdmin
ShouldBeAdmin(email) ==
  IF email # NoEmail /\ Len(allowedEmailDomains) > 0
  THEN Includes(allowedEmailDomains, EmailDomain(email))
  ELSE FALSE

\* adapter.createUser: the row inserted into the user table
CreateUser(email) ==
  [id |-> UserId(email), email |-> email, isAdmin |-> ShouldBeAdmin(email)]

\* A plausible slip: the callback lets every address through.
SignInCallbackAllowAll(email) == IF email = NoEmail THEN "throw" ELSE "true"

\* A plausible slip: the whitelist is consulted for new users only.
SignInCallbackNewUsersOnly(email) ==
  IF email = NoEmail THEN "throw"
  ELSE IF (\E u \in users : u.email = email) \/ IsEmailAllowed(email) THEN "true"
  ELSE "false"

\* A plausible slip: a denial by the whitelist is reported through a redirect
\* of its own (a callback may return the URL to redirect to).
SignInCallbackRedirectsDenied(email) ==
  IF email = NoEmail THEN "throw"
  ELSE IF ~IsEmailAllowed(email) THEN "NotWhitelisted"
  ELSE "true"

\* A plausible slip: the whitelist is consulted only when there is an email.
SignInCallbackSkipsAbsentEmail(email) ==
  IF email # NoEmail /\ ~IsEmailAllowed(email) THEN "false" ELSE "true"

\* callbacks.signIn: "throw" (Error AccessDenied), "false" or "true"
SignInCallback(email) ==
  IF email = NoEmail THEN "throw"
  ELSE IF ~IsEmailAllowed(email) THEN "false"
  ELSE "true"

\* A plausible slip: the session also grants what the domain rule granted when
\* the user was created.
SessionIsAdminOrDomain(userId) ==
  \E u \in users : u.id = userId /\ (u.isAdmin \/ ShouldBeAdmin(u.email))

\* callbacks.session: session.user.isAdmin = dbUser[0]?.isAdmin ?? false
SessionIsAdmin(userId) ==
  IF \E u \in users : u.id = userId
  THEN (CHOOSE u \in users : u.id = userId).isAdmin
  ELSE FALSE

\* auth(): the session of a request, resolved from the session and user tables
AuthSession(actor) ==
  IF actor # NoSession /\ actor \in sessions
  THEN [present |-> TRUE, userId |-> actor, isAdmin |-> SessionIsAdmin(actor)]
  ELSE [present |-> FALSE, userId |-> NoSession, isAdmin |-> FALSE]

\* A plausible slip: the user row is written before the callback is asked.
VerifyMagicLinkRegistersFirst(p, email) ==
  /\ response = NoResponse
  /\ req[p].pc = "idle"
  /\ users' = IF \E u \in users : u.email = email THEN users
              ELSE users \cup {[id |-> UserId(email), email |-> email, isAdmin |-> FALSE]}
  /\ IF email # NoEmail /\ IsEmailAllowed(email)
     THEN /\ req' = [req EXCEPT ![p] = [Idle EXCEPT !.kind = "signIn", !.pc = "login",
                                                     !.email = email]]
          /\ response' = NoResponse
     ELSE /\ response' = SignInResponse("AccessDenied", email, FALSE)
          /\ UNCHANGED req
  /\ UNCHANGED <<allowedEmailDomains, emailWhitelist, sessions, call, llm>>

\* The error a denial surfaces as: throw new Error("AccessDenied") and return
\* false both end as error=AccessDenied; a URL returned instead would be
\* followed, and carries its own error.
CallbackError(result) ==
  IF result \in {"throw", "false"} THEN "AccessDenied" ELSE result

\* isEmailAllowed: the whitelist queries it runs, none when the domain decides
IsEmailAllowedQueries(email) ==
  IF Len(allowedEmailDomains) > 0 /\ Includes(allowedEmailDomains, EmailDomain(email))
  THEN 0
  ELSE 1

\* callbacks.signIn: the whitelist queries it runs, none without an email
SignInCallbackQueries(email) ==
  IF email = NoEmail THEN 0 ELSE IsEmailAllowedQueries(email)

\* /auth/signin, handleSubmit: signIn("postmark", { email, redirect: false }).
\* callbacks.signIn decides before the link is sent; a denial comes back as
\* result.error. The verification token is not part of the model's state.
RequestMagicLink(p, email) ==
  /\ response = NoResponse
  /\ req[p].pc = "idle"
  /\ email # NoEmail
  /\ response' = IF SignInCallback(email) = "true"
                 THEN SignInRequestResponse("", email)
                 ELSE SignInRequestResponse(CallbackError(SignInCallback(email)), email)
  /\ UNCHANGED <<allowedEmailDomains, emailWhitelist, users, sessions, req, call, llm>>

\* The provider's callback route, first part: the magic link is verified and
\* callbacks.signIn decides; a denial ends the attempt with error=AccessDenied.
VerifyMagicLink(p, email) ==
  /\ response = NoResponse
  /\ req[p].pc = "idle"
  /\ IF SignInCallback(email) = "true"
     THEN /\ req' = [req EXCEPT ![p] = [Idle EXCEPT !.kind = "signIn", !.pc = "login",
                                                     !.email = email]]
          /\ response' = NoResponse
     ELSE /\ response' = SignInResponse(CallbackError(SignInCallback(email)), email, FALSE)
          /\ UNCHANGED req
  /\ UNCHANGED <<allowedEmailDomains, emailWhitelist, users, sessions, call, llm>>

\* The provider's callback route, second part: the user is created by
\* adapter.createUser when no user has the address, and a session is created.
LoginOrRegister(p) ==
  /\ response = NoResponse
  /\ req[p].kind = "signIn" /\ req[p].pc = "login"
  /\ LET email == req[p].email
         known == \E u \in users : u.email = email
     IN /\ users' = IF known THEN users ELSE users \cup {CreateUser(email)}
        /\ sessions' = sessions \cup {UserId(email)}
        /\ response' = SignInResponse("", email, ~known)
  /\ req' = [req EXCEPT ![p] = Idle]
  /\ UNCHANGED <<allowedEmailDomains, emailWhitelist, call, llm>>


(***************************************************************************)
(* The admin routes: src/app/api/admin/users/[id]/route.ts,                *)
(* src/app/api/account/update/route.ts (POST /api/email-whitelist) and     *)
(* src/app/api/email-whitelist/[id]/route.ts                               *)
(***************************************************************************)

\* A plausible slip: any signed-in user passes the admin check.
IsAuthorizedAnySession(session) == session.present

\* !session?.user?.isAdmin, negated
IsAuthorized(session) == session.present /\ session.isAdmin

\* const session = await auth(); if (!session?.user?.isAdmin) return 401
\* The request of kind `kind` arrives with the session cookie of `actor`.
Auth(p, kind, actor) ==
  /\ response = NoResponse
  /\ req[p].pc = "idle"
  /\ LET session == AuthSession(actor)
     IN IF IsAuthorized(session)
        THEN /\ req' = [req EXCEPT ![p] = [Idle EXCEPT !.kind = kind, !.pc = "body",
                                                        !.userId = session.userId]]
             /\ response' = NoResponse
        ELSE /\ response' = Response(kind, 401, "Unauthorized")
             /\ UNCHANGED req
  /\ UNCHANGED <<allowedEmailDomains, emailWhitelist, users, sessions, call, llm>>

\* typeof isAdmin !== "boolean", negated, on the JSON text of the value
TypeofBoolean(v) == v \in {"true", "false"}

\* A plausible slip: the guard applies only while another admin exists.
SelfDemotionUnlessLast(sessionUserId, userId, isAdmin) ==
  /\ sessionUserId = userId /\ isAdmin = "false"
  /\ \E u \in users : u.isAdmin /\ u.id # userId

\* session.user.id === userId && !isAdmin
SelfDemotion(sessionUserId, userId, isAdmin) ==
  sessionUserId = userId /\ isAdmin = "false"

\* db.update(users).set({ isAdmin }).where(eq(users.id, userId))
UpdateIsAdmin(userId, isAdmin) ==
  {IF u.id = userId THEN [u EXCEPT !.isAdmin = (isAdmin = "true")] ELSE u : u \in users}

\* PATCH /api/admin/users/[id], after the admin check
UsersPATCH(p, userId, isAdmin) ==
  /\ response = NoResponse
  /\ req[p].kind = "usersPATCH" /\ req[p].pc = "body"
  /\ IF ~TypeofBoolean(isAdmin)
     THEN /\ response' = Response("usersPATCH", 400, "Invalid isAdmin value")
          /\ UNCHANGED users
     ELSE IF SelfDemotion(req[p].userId, userId, isAdmin)
     THEN /\ response' = Response("usersPATCH", 400,
                                  "You cannot remove your own admin privileges")
          /\ UNCHANGED users
     ELSE /\ users' = UpdateIsAdmin(userId, isAdmin)
          /\ response' = Response("usersPATCH", 200, "")
  /\ req' = [req EXCEPT ![p] = Idle]
  /\ UNCHANGED <<allowedEmailDomains, emailWhitelist, sessions, call, llm>>

\* !session?.user?.id, negated
HasUserId(session) == session.present

(***************************************************************************)
(* The middleware                                                          *)
(***************************************************************************)

Path_admin == <<"/", "a", "d", "m", "i", "n">>
Path_admin_users ==
  <<"/", "a", "d", "m", "i", "n", "/", "u", "s", "e", "r", "s">>
Path_adminx == <<"/", "a", "d", "m", "i", "n", "x">>
Path_root == <<"/">>
Path_account == <<"/", "a", "c", "c", "o", "u", "n", "t">>
Path_api_auth ==
  <<"/", "a", "p", "i", "/", "a", "u", "t", "h", "/", "s", "e", "s", "s",
    "i", "o", "n">>

\* The paths of the requests made.
Paths ==
  {Path_admin, Path_admin_users, Path_adminx, Path_root, Path_account, Path_api_auth}

\* String.prototype.startsWith
StartsWith(s, prefix) ==
  Len(s) >= Len(prefix) /\ SubSeq(s, 1, Len(prefix)) = prefix

\* config.matcher: "/((?!_next/static|_next/image|favicon.ico|api/auth).*)"
MatcherExcluded ==
  {<<"_", "n", "e", "x", "t", "/", "s", "t", "a", "t", "i", "c">>,
   <<"_", "n", "e", "x", "t", "/", "i", "m", "a", "g", "e">>,
   <<"f", "a", "v", "i", "c", "o", "n", ".", "i", "c", "o">>,
   <<"a", "p", "i", "/", "a", "u", "t", "h">>}

\* Whether the middleware runs for the path.
Matched(pathname) ==
  /\ StartsWith(pathname, <<"/">>)
  /\ \A prefix \in MatcherExcluded : ~StartsWith(Tail(pathname), prefix)

\* A plausible slip: any signed-in user may see the admin pages.
MiddlewareDecisionSessionOnly(pathname, session) ==
  IF StartsWith(pathname, Path_admin) /\ ~session.present
  THEN "/auth/signin"
  ELSE ""

\* The middleware's callback: the location it redirects to, "" for
\* NextResponse.next()
MiddlewareDecision(pathname, session) ==
  IF StartsWith(pathname, Path_admin)
  THEN IF ~session.present THEN "/auth/signin"
       ELSE IF ~session.isAdmin THEN "/"
       ELSE ""
  ELSE ""

\* A request for a page with the session cookie of `actor`: auth() resolves the
\* session and the callback decides; a path the matcher excludes proceeds
\* without the middleware.
Middleware(pathname, actor) ==
  /\ response' = IF Matched(pathname)
                 THEN MiddlewareResponse(MiddlewareDecision(pathname, AuthSession(actor)))
                 ELSE MiddlewareResponse("")
  /\ UNCHANGED <<allowedEmailDomains, emailWhitelist, users, sessions, req, call, llm>>

\* PATCH /api/account/update: const session = await auth(); 401 without a user
AccountAuth(p, actor) ==
  /\ response = NoResponse
  /\ req[p].pc = "idle"
  /\ LET session == AuthSession(actor)
     IN IF HasUserId(session)
        THEN /\ req' = [req EXCEPT ![p] = [Idle EXCEPT !.kind = "accountPATCH",
                                                        !.pc = "body",
                                                        !.userId = session.userId]]
             /\ response' = NoResponse
        ELSE /\ response' = Response("accountPATCH", 401, "Unauthorized")
             /\ UNCHANGED req
  /\ UNCHANGED <<allowedEmailDomains, emailWhitelist, users, sessions, call, llm>>

\* typeof v === "string", on the JSON text of the value
TypeofString(v) == v \in {"s:Ann", "s:Bob"}

\* A plausible slip: the body is passed to set() as it came.
UpdateDataWholeBody(body) == body

\* const { name, image } = body; updateData holds the provided ones of the two
UpdateData(body) == AccountBody(body.name, body.image, "absent")

\* db.update(users).set(updateData).where(eq(users.id, userId)): the columns
\* updateData names are set. Of the columns of the user table the model's rows
\* hold id, email and isAdmin; name and image are not among them.
SetUser(userId, updateData) ==
  {IF u.id = userId
   THEN [u EXCEPT !.isAdmin = IF updateData.isAdmin # "absent"
                              THEN updateData.isAdmin = "true" ELSE @]
   ELSE u : u \in users}

\* PATCH /api/account/update, after the session check. With no column to set
\* the query builder either runs no change or throws (caught: 500), depending
\* on its version.
AccountPATCH(p, body) ==
  /\ response = NoResponse
  /\ req[p].kind = "accountPATCH" /\ req[p].pc = "body"
  /\ IF ~TypeofString(body.name) /\ body.name # "absent"
     THEN /\ response' = Response("accountPATCH", 400, "Invalid name")
          /\ UNCHANGED users
     ELSE IF ~TypeofString(body.image) /\ body.image # "absent"
     THEN /\ response' = Response("accountPATCH", 400, "Invalid image URL")
          /\ UNCHANGED users
     ELSE IF UpdateData(body) = AccountBody("absent", "absent", "absent")
     THEN /\ response' \in {Response("accountPATCH", 200, ""),
                            Response("accountPATCH", 500, "Failed to update account")}
          /\ UNCHANGED users
     ELSE /\ users' = SetUser(req[p].userId, UpdateData(body))
          /\ response' = Response("accountPATCH", 200, "")
  /\ req' = [req EXCEPT ![p] = Idle]
  /\ UNCHANGED <<allowedEmailDomains, emailWhitelist, sessions, call, llm>>


\* notes || null
NotesOrNull(notes) == IF notes = "" THEN NULL ELSE notes

\* A plausible slip: the column is declared without .unique().
UniqueViolationNoConstraint(email) == FALSE

\* email: text("email").notNull().unique() -- an insert of a stored email fails
UniqueViolation(email) == \E row \in emailWhitelist : row.email = email

\* The message of the database error raised on a unique violation, word by word.
UniqueViolationMessage ==
  <<"duplicate", "key", "value", "violates", "unique", "constraint">>

\* A plausible slip: the address is stored as typed.
WhitelistEmailValueAsTyped(email) == Trim(email)

\* email.toLowerCase().trim()
WhitelistEmailValue(email) == Trim(ToLowerCase(email))

\* A plausible slip: the handler looks for the SQLSTATE code in the message.
IsUniqueErrorByCode(message) == Includes(message, "23505")

\* error instanceof Error && error.message.includes("unique")
IsUniqueError(message) == Includes(message, "unique")

UnusedRowIds == RowIds \ {row.id : row \in emailWhitelist}

\* id: $defaultFn(() => crypto.randomUUID()) -- an id no stored row has. No
\* request in flight holds a row id, so taking the least unused one loses nothing.
NewRowId == CHOOSE id \in UnusedRowIds : \A other \in UnusedRowIds : id <= other

\* GET /api/email-whitelist, after the admin check: the rows are selected and
\* returned
WhitelistGET(p) ==
  /\ response = NoResponse
  /\ req[p].kind = "whitelistGET" /\ req[p].pc = "body"
  /\ response' = Response("whitelistGET", 200, "")
  /\ req' = [req EXCEPT ![p] = Idle]
  /\ UNCHANGED <<allowedEmailDomains, emailWhitelist, users, sessions, call, llm>>

\* POST /api/email-whitelist, from the admin check to the insert: the body is
\* read (await request.json()) and validated.
WhitelistPOSTBody(p, email, notes) ==
  /\ response = NoResponse
  /\ req[p].kind = "whitelistPOST" /\ req[p].pc = "body"
  /\ IF email = NoEmail
     THEN /\ response' = Response("whitelistPOST", 400, "Email is required")
          /\ req' = [req EXCEPT ![p] = Idle]
     ELSE IF ~EmailRegexTest(email)
     THEN /\ response' = Response("whitelistPOST", 400, "Invalid email format")
          /\ req' = [req EXCEPT ![p] = Idle]
     ELSE /\ response' = NoResponse
          /\ req' = [req EXCEPT ![p] = [@ EXCEPT !.pc = "insert", !.email = email,
                                                 !.notes = notes]]
  /\ UNCHANGED <<allowedEmailDomains, emailWhitelist, users, sessions, call, llm>>

\* POST /api/email-whitelist: await db.insert(emailWhitelist).values(...) and the
\* response, or the catch block when the insert throws.
WhitelistPOSTInsert(p) ==
  /\ response = NoResponse
  /\ req[p].kind = "whitelistPOST" /\ req[p].pc = "insert"
  /\ IF UniqueViolation(WhitelistEmailValue(req[p].email))
     THEN /\ response' = IF IsUniqueError(UniqueViolationMessage)
                         THEN Response("whitelistPOST", 409, "Email is already whitelisted")
                         ELSE Response("whitelistPOST", 500, "Failed to add email to whitelist")
          /\ UNCHANGED emailWhitelist
     ELSE /\ UnusedRowIds # {}
          /\ emailWhitelist' = emailWhitelist \cup
               {[id |-> NewRowId, email |-> WhitelistEmailValue(req[p].email),
                 notes |-> NotesOrNull(req[p].notes), createdBy |-> req[p].userId]}
          /\ response' = Response("whitelistPOST", 200, "")
  /\ req' = [req EXCEPT ![p] = Idle]
  /\ UNCHANGED <<allowedEmailDomains, users, sessions, call, llm>>

\* DELETE /api/email-whitelist/[id], after the admin check
WhitelistDELETE(p, id) ==
  /\ response = NoResponse
  /\ req[p].kind = "whitelistDELETE" /\ req[p].pc = "body"
  /\ emailWhitelist' = {row \in emailWhitelist : row.id # id}
  /\ response' = IF \E row \in emailWhitelist : row.id = id
                 THEN Response("whitelistDELETE", 200, "")
                 ELSE Response("whitelistDELETE", 404, "Email not found")
  /\ req' = [req EXCEPT ![p] = Idle]
  /\ UNCHANGED <<allowedEmailDomains, users, sessions, call, llm>>

\* A plausible slip: the update has no where clause.
WhereIdMissing(row, id) == TRUE

\* .where(eq(emailWhitelist.id, id))
WhereId(row, id) == row.id = id

\* .set({ notes: notes || null })
SetNotes(row, notes) == [row EXCEPT !.notes = NotesOrNull(notes)]

\* PATCH /api/email-whitelist/[id], after the admin check
WhitelistPATCH(p, id, notes) ==
  /\ response = NoResponse
  /\ req[p].kind = "whitelistPATCH" /\ req[p].pc = "body"
  /\ emailWhitelist' =
       {IF WhereId(row, id) THEN SetNotes(row, notes) ELSE row :
          row \in emailWhitelist}
  /\ response' = IF \E row \in emailWhitelist : WhereId(row, id)
                 THEN Response("whitelistPATCH", 200, "")
                 ELSE Response("whitelistPATCH", 404, "Email not found")
  /\ req' = [req EXCEPT ![p] = Idle]
  /\ UNCHANGED <<allowedEmailDomains, users, sessions, call, llm>>

\* The response of the step just taken is handed to the client. A response is
\* always handed over before the next step, which orders the steps of the
\* handlers without removing any interleaving of them.
Respond ==
  /\ response # NoResponse
  /\ response' = NoResponse
  /\ UNCHANGED <<allowedEmailDomains, emailWhitelist, users, sessions, req, call, llm>>

Next ==
  \/ Respond
  \/ \E p \in Procs, email \in SignInEmails : RequestMagicLink(p, email)
  \/ \E p \in Procs, email \in SignInEmails \cup {NoEmail} : VerifyMagicLink(p, email)
  \/ \E p \in Procs : LoginOrRegister(p)
  \/ \E p \in Procs, kind \in AdminKinds, actor \in UserIds \cup {NoSession} :
       Auth(p, kind, actor)
  \/ \E p \in Procs, userId \in TargetIds, isAdmin \in IsAdminInputs :
       UsersPATCH(p, userId, isAdmin)
  \/ \E p \in Procs, actor \in UserIds \cup {NoSession} : AccountAuth(p, actor)
  \/ \E p \in Procs, body \in AccountBodies : AccountPATCH(p, body)
  \/ \E p \in Procs : WhitelistGET(p)
  \/ \E p \in Procs, email \in PostEmails, notes \in NoteInputs :
       WhitelistPOSTBody(p, email, notes)
  \/ \E p \in Procs : WhitelistPOSTInsert(p)
  \/ \E p \in Procs, id \in RowIds : WhitelistDELETE(p, id)
  \/ \E p \in Procs, id \in RowIds, notes \in NoteInputs : WhitelistPATCH(p, id, notes)

Spec == Init /\ [][Next]_vars


(***************************************************************************)
(* Direct calls of the functions of auth.ts, on inputs drawn from bounded  *)
(* sets: any configured domain list, any table the whitelist API can leave *)
(* behind, any candidate address.                                          *)
(***************************************************************************)

FnDomainConfigs == DomainConfigs \cup {<<D_ac>>}

\* Addresses the whitelist table may hold (well formed, lower case).
FnStoredEmails == {E_u_ac, E_v_bc, E_w_bc}

\* Candidate addresses: mixed case, several "@", none, leading white space.
FnEmails ==
  {E_u_ac, E_u_Ac, E_v_bc, E_V_bc, E_w_bc, E_v_ac_bc, E_noAt, E_sp_v_bc}

FnRowId(email) ==
  CASE email = E_u_ac -> 1
    [] email = E_v_bc -> 2
    [] OTHER -> 3

FnTable(stored) ==
  {[id |-> FnRowId(e), email |-> e, notes |-> NULL, createdBy |-> 1] : e \in stored}

InitFn ==
  /\ allowedEmailDomains \in FnDomainConfigs
  /\ emailWhitelist \in {FnTable(stored) : stored \in SUBSET FnStoredEmails}
  /\ users = {}
  /\ sessions = {}
  /\ req = [p \in Procs |-> Idle]
  /\ response = NoResponse
  /\ call = NoCall
  /\ llm = NoLlmCall

CallIsEmailAllowed(email) ==
  /\ call' = [fn |-> "isEmailAllowed", email |-> email, result |-> IsEmailAllowed(email),
              queries |-> IsEmailAllowedQueries(email)]
  /\ UNCHANGED <<allowedEmailDomains, emailWhitelist, users, sessions, req, response, llm>>

CallCreateUser(email) ==
  /\ call' = [fn |-> "createUser", email |-> email, result |-> CreateUser(email).isAdmin,
              queries |-> 0]
  /\ UNCHANGED <<allowedEmailDomains, emailWhitelist, users, sessions, req, response, llm>>

\* callbacks.signIn({ user }): result TRUE when it returns true, FALSE when it
\* returns false or throws
CallSignIn(email) ==
  /\ call' = [fn |-> "signIn", email |-> email, result |-> SignInCallback(email) = "true",
              queries |-> SignInCallbackQueries(email)]
  /\ UNCHANGED <<allowedEmailDomains, emailWhitelist, users, sessions, req, response, llm>>

NextFn ==
  \/ \E email \in FnEmails : CallIsEmailAllowed(email)
  \/ \E email \in FnEmails \cup {NoEmail} : CallCreateUser(email)
  \/ \E email \in FnEmails \cup {NoEmail} : CallSignIn(email)

SpecFn == InitFn /\ [][NextFn]_vars

(***************************************************************************)
(* PATCH /api/admin/users/[id] run as one step (session check, validation, *)
(* guard and update together), from any user table with an admin in it.    *)
(***************************************************************************)

\* The addresses of the users of the table.
AtomicEmails == {E_u_ac, E_v_bc, E_w_bc}

AtomicUserIds == {UserId(e) : e \in AtomicEmails}

\* The user tables over these addresses, each user an admin or not.
AtomicTables ==
  UNION {{{[id |-> UserId(e), email |-> e, isAdmin |-> admins[e]] : e \in present} :
            admins \in [present -> BOOLEAN]} : present \in SUBSET AtomicEmails}

InitAtomic ==
  /\ allowedEmailDomains = <<>>
  /\ emailWhitelist = {}
  /\ users \in {table \in AtomicTables : \E u \in table : u.isAdmin}
  /\ sessions \in SUBSET {u.id : u \in users}
  /\ req = [p \in Procs |-> Idle]
  /\ response = NoResponse
  /\ call = NoCall
  /\ llm = NoLlmCall

\* The whole handler in one step, for the session cookie of `actor`.
UsersPATCHAtomic(actor, userId, isAdmin) ==
  /\ LET session == AuthSession(actor)
     IN IF ~IsAuthorized(session)
        THEN /\ response' = Response("usersPATCH", 401, "Unauthorized")
             /\ UNCHANGED users
        ELSE IF ~TypeofBoolean(isAdmin)
        THEN /\ response' = Response("usersPATCH", 400, "Invalid isAdmin value")
             /\ UNCHANGED users
        ELSE IF SelfDemotion(session.userId, userId, isAdmin)
        THEN /\ response' = Response("usersPATCH", 400,
                                     "You cannot remove your own admin privileges")
             /\ UNCHANGED users
        ELSE /\ users' = UpdateIsAdmin(userId, isAdmin)
             /\ response' = Response("usersPATCH", 200, "")
  /\ UNCHANGED <<allowedEmailDomains, emailWhitelist, sessions, req, call, llm>>

NextAtomic ==
  \E actor \in AtomicUserIds \cup {NoSession}, userId \in AtomicUserIds \cup {9},
     isAdmin \in IsAdminInputs :
    UsersPATCHAtomic(actor, userId, isAdmin)

SpecAtomic == InitAtomic /\ [][NextAtomic]_vars

(***************************************************************************)
(* Page requests through the middleware, for any user table and sessions.  *)
(***************************************************************************)

InitPages ==
  /\ allowedEmailDomains = <<>>
  /\ emailWhitelist = {}
  /\ users \in AtomicTables
  /\ sessions \in SUBSET {u.id : u \in users}
  /\ req = [p \in Procs |-> Idle]
  /\ response = NoResponse
  /\ call = NoCall
  /\ llm = NoLlmCall

NextPages ==
  \E pathname \in Paths, actor \in AtomicUserIds \cup {NoSession} :
    Middleware(pathname, actor)

SpecPages == InitPages /\ [][NextPages]_vars

(***************************************************************************)
(* Properties                                                              *)
(***************************************************************************)

AtPositions(s) == {i \in 1..Len(s) : s[i] = "@"}

\* The domain of an address as the claims read it: the characters after the first
\* "@", up to the next "@" or the end; none when the address has no "@".
DomainAfterAt(s) ==
  IF AtPositions(s) = {} THEN Undefined
  ELSE LET first == CHOOSE i \in AtPositions(s) : \A j \in AtPositions(s) : i <= j
           later == {j \in AtPositions(s) : j > first}
           stop == IF later = {} THEN Len(s) + 1
                   ELSE CHOOSE j \in later : \A k \in later : j <= k
       IN SubSeq(s, first + 1, stop - 1)

AllowedDomainSet == {allowedEmailDomains[i] : i \in 1..Len(allowedEmailDomains)}

\* The domain rule: AllowedDomainSet is non-empty and holds the address's domain.
AdmittedByDomain(email) ==
  AllowedDomainSet # {} /\ DomainAfterAt(email) \in AllowedDomainSet

WhitelistEmails == {row.email : row \in emailWhitelist}

\* C1: a call of isEmailAllowed on an address whose domain is an exact member of
\* a non-empty AllowedDomainSet returns true, whatever rows the whitelist holds.
C1_DomainMemberIsAllowed ==
  (call.fn = "isEmailAllowed" /\ AdmittedByDomain(call.email)) => call.result = TRUE

\* C1 witness: an address of an allowed domain was admitted although no whitelist
\* row holds it and the table holds other rows.
C1_Witness ==
  /\ call.fn = "isEmailAllowed" /\ call.email = E_u_ac /\ call.result = TRUE
  /\ AdmittedByDomain(E_u_ac)
  /\ E_u_ac \notin WhitelistEmails /\ WhitelistEmails # {}

\* C2: a call of isEmailAllowed on an address the domain rule does not admit
\* returns true exactly when some whitelist row's email equals the lower-cased
\* address.
C2_WhitelistDecidesOtherwise ==
  (call.fn = "isEmailAllowed" /\ ~AdmittedByDomain(call.email)) =>
    (call.result = TRUE <=> ToLowerCase(call.email) \in WhitelistEmails)

\* C2 witness: a mixed-case address outside the allowed domains was admitted
\* through the row that holds its lower-case form.
C2_Witness ==
  /\ call.fn = "isEmailAllowed" /\ call.email = E_V_bc /\ call.result = TRUE
  /\ ~AdmittedByDomain(E_V_bc)
  /\ E_v_bc \in WhitelistEmails /\ E_V_bc \notin WhitelistEmails


UserIdsOf(table) == {u.id : u \in table}

\* C3: a user created by createUser is stored with isAdmin equal to (the allowed
\* domains are non-empty and hold the address's domain); whitelist rows play no
\* part.
C3_AdminOnlyByDomain ==
  [][\A u \in users' : u.id \notin UserIdsOf(users) =>
       u.isAdmin = AdmittedByDomain(u.email)]_vars

\* C3 witness: a user admitted through its whitelist row alone has just been
\* created, and is no admin.
C3_Witness ==
  /\ response = SignInResponse("", E_v_bc, TRUE)
  /\ E_v_bc \in WhitelistEmails /\ ~AdmittedByDomain(E_v_bc)
  /\ \E u \in users : u.email = E_v_bc /\ u.isAdmin = FALSE
  /\ \E u \in users : u.isAdmin

\* The user of this address exists, and neither the domain rule nor a whitelist
\* row admits the address any more.
Revoked(email) ==
  /\ \E u \in users : u.email = email
  /\ ~AdmittedByDomain(email)
  /\ ToLowerCase(email) \notin WhitelistEmails

\* C4: a magic-link verification for an existing user whose whitelist row is gone
\* (and whose domain is not allowed) is denied with AccessDenied and creates no
\* session and no user: the callback decides anew on every attempt.
C4_RevokedUserDenied ==
  [][\A p \in Procs, e \in SignInEmails :
       (req[p].pc = "idle" /\ Revoked(e) /\ VerifyMagicLink(p, e)) =>
         /\ response' = SignInResponse("AccessDenied", e, FALSE)
         /\ req'[p].pc = "idle"
         /\ sessions' = sessions /\ users' = users]_vars

\* C4 witness: the sign-in of an existing user has just been denied, its row
\* having been deleted.
C4_Witness ==
  /\ response = SignInResponse("AccessDenied", E_v_bc, FALSE)
  /\ Revoked(E_v_bc)

SelfDemotionError ==
  Response("usersPATCH", 400, "You cannot remove your own admin privileges")

\* C5: a PATCH /api/admin/users/[id] of an admin on its own id with isAdmin false
\* is answered 400 and changes no user, whether or not other admins exist.
C5_SelfDemotionRejected ==
  [][\A p \in Procs :
       (req[p].kind = "usersPATCH" /\ UsersPATCH(p, req[p].userId, "false")) =>
         (response' = SelfDemotionError /\ users' = users)]_vars

\* C5 witness: a self-demotion has just been rejected while another admin exists.
C5_Witness ==
  /\ response = SelfDemotionError
  /\ Cardinality({u \in users : u.isAdmin}) >= 2

C7_WhitelistUniqueLowercase ==
  /\ \A r1, r2 \in emailWhitelist : r1.email = r2.email => r1 = r2
  /\ \A r \in emailWhitelist : r.email = ToLowerCase(r.email)

\* C7 witness: a POST has just inserted a second row.
C7_Witness ==
  /\ response = Response("whitelistPOST", 200, "")
  /\ Cardinality(emailWhitelist) = 2

ConflictResponse == Response("whitelistPOST", 409, "Email is already whitelisted")

\* C8: a whitelist POST (of an admin session) whose lower-cased email is already
\* stored is answered 409 "Email is already whitelisted" and leaves the table
\* unchanged.
C8_DuplicatePostConflict ==
  [][\A p \in Procs :
       (ToLowerCase(req[p].email) \in WhitelistEmails /\ WhitelistPOSTInsert(p)) =>
         (response' = ConflictResponse /\ emailWhitelist' = emailWhitelist)]_vars

\* C8 witness: a duplicate POST has just been answered 409.
C8_Witness == response = ConflictResponse /\ emailWhitelist # {}

NoCaseInsensitiveDuplicates ==
  \A r1, r2 \in emailWhitelist :
    ToLowerCase(r1.email) = ToLowerCase(r2.email) => r1 = r2

PostInFlight(p) == req[p].kind = "whitelistPOST" /\ req[p].pc = "insert"

SameAddress(e1, e2) == ToLowerCase(e1) = ToLowerCase(e2)

\* C9: whatever else is in flight, an insert step of a whitelist POST leaves no
\* two rows for one address (ignoring case); when the address is already stored
\* it adds no row and gets the conflict response; and once one of two POSTs in
\* flight together for emails equal ignoring case has run its insert, the
\* address is stored, so that the other's insert is such a conflict.
C9_ConcurrentPostsOneRow ==
  [][\A p \in Procs :
       WhitelistPOSTInsert(p) =>
         /\ NoCaseInsensitiveDuplicates'
         /\ (\E r \in emailWhitelist : SameAddress(r.email, req[p].email)) =>
              (response' = ConflictResponse /\ emailWhitelist' = emailWhitelist)
         /\ \A q \in Procs \ {p} :
              (PostInFlight(q) /\ SameAddress(req[p].email, req[q].email)) =>
                /\ PostInFlight(q)'
                /\ \E r \in emailWhitelist' : SameAddress(r.email, req[q].email)
                /\ Cardinality(emailWhitelist') <= Cardinality(emailWhitelist) + 1]_vars

\* C9 witness: of two POSTs in flight together for one address in two casings,
\* one has just inserted the only row and the other has yet to run its insert.
C9_Witness ==
  /\ response = Response("whitelistPOST", 200, "")
  /\ \E q \in Procs : PostInFlight(q) /\ req[q].email = E_V_bc
  /\ \E r \in emailWhitelist : r.email = E_v_bc
  /\ Cardinality(emailWhitelist) = 1

\* The session cookie of `actor` resolves to a user who is an admin now.
IsAdminSession(actor) ==
  actor \in sessions /\ \E u \in users : u.id = actor /\ u.isAdmin

WhitelistKinds == {"whitelistGET", "whitelistPOST", "whitelistDELETE", "whitelistPATCH"}

Unauthorized(kind) == Response(kind, 401, "Unauthorized")

\* C19: the isAdmin value of an existing user changes only in the update step of
\* a PATCH /api/admin/users/[id] that is answered 200; a request reaches that
\* step only through a check made while its session user was an admin; and a
\* PATCH arriving with no session or a non-admin one is answered 401 and changes
\* no user. (So sign-ins, account updates, whatever their body, and whitelist
\* operations leave isAdmin as it was.)
C19_IsAdminChangesOnlyByAdminPatch ==
  [][/\ \A u \in users : \A u2 \in users' :
          (u2.id = u.id /\ u2.isAdmin # u.isAdmin) =>
            \E p \in Procs :
              /\ req[p].kind = "usersPATCH" /\ req[p].pc = "body"
              /\ req'[p] = Idle
              /\ response' = Response("usersPATCH", 200, "")
     /\ \A p \in Procs :
          (req'[p].kind = "usersPATCH" /\ req[p].kind # "usersPATCH") =>
            (IsAdminSession(req'[p].userId) /\ users' = users)
     /\ \A p \in Procs, actor \in UserIds \cup {NoSession} :
          (~IsAdminSession(actor) /\ Auth(p, "usersPATCH", actor)) =>
            (response' = Unauthorized("usersPATCH") /\ users' = users /\ req' = req)]_vars

\* C19 witness: an admin's PATCH has just made the whitelisted user an admin,
\* which the domain rule did not make them when they were created.
C19_Witness ==
  /\ response = Response("usersPATCH", 200, "")
  /\ \E u \in users : u.email = E_v_bc /\ u.isAdmin /\ ~AdmittedByDomain(u.email)

\* C20: a row appears in the whitelist table only in the insert step of a POST
\* and disappears only in the delete step of a DELETE; a whitelist request
\* reaches its step past the check only when checked while its session user was
\* an admin; and a whitelist request (GET, POST, PATCH, DELETE) arriving with no
\* session or a non-admin one is answered 401 and leaves the table unchanged.
C20_WhitelistChangesOnlyByAdmin ==
  [][/\ (\E row \in emailWhitelist' : \A old \in emailWhitelist : old.id # row.id) =>
          \E p \in Procs :
            /\ req[p].kind = "whitelistPOST" /\ req[p].pc = "insert" /\ req'[p] = Idle
            /\ response' = Response("whitelistPOST", 200, "")
     /\ (\E old \in emailWhitelist : \A row \in emailWhitelist' : old.id # row.id) =>
          \E p \in Procs :
            /\ req[p].kind = "whitelistDELETE" /\ req[p].pc = "body" /\ req'[p] = Idle
            /\ response' = Response("whitelistDELETE", 200, "")
     /\ \A p \in Procs :
          (req'[p].kind \in WhitelistKinds /\ req[p].kind \notin WhitelistKinds) =>
            (IsAdminSession(req'[p].userId) /\ emailWhitelist' = emailWhitelist)
     /\ \A p \in Procs, kind \in WhitelistKinds, actor \in UserIds \cup {NoSession} :
          (~IsAdminSession(actor) /\ Auth(p, kind, actor)) =>
            /\ response' = Unauthorized(kind)
            /\ emailWhitelist' = emailWhitelist /\ req' = req]_vars

\* C20 witness: a DELETE was just answered 401 while the table holds a row and
\* a user who is no admin holds a session.
C20_Witness ==
  /\ response = Unauthorized("whitelistDELETE")
  /\ emailWhitelist # {}
  /\ \E u \in users : u.id \in sessions /\ ~u.isAdmin

\* C21: a PATCH /api/email-whitelist/[id] past the admin check leaves every
\* row with another id as it was and changes nothing but the notes of the row
\* with that id, which it sets to the notes sent (null for none); it is answered
\* 200 when the row exists, and 404 with the table unchanged when it does not.
C21_PatchChangesOnlyNotes ==
  [][\A p \in Procs, id \in RowIds, notes \in NoteInputs :
       WhitelistPATCH(p, id, notes) =>
         /\ \A row \in emailWhitelist : row.id # id => row \in emailWhitelist'
         /\ Cardinality(emailWhitelist') = Cardinality(emailWhitelist)
         /\ \A row \in emailWhitelist : row.id = id =>
              /\ [row EXCEPT !.notes = IF notes = "" THEN NULL ELSE notes]
                   \in emailWhitelist'
              /\ response' = Response("whitelistPATCH", 200, "")
         /\ (\A row \in emailWhitelist : row.id # id) =>
              /\ response' = Response("whitelistPATCH", 404, "Email not found")
              /\ emailWhitelist' = emailWhitelist]_vars

\* C21 witness: a PATCH has just been answered 200 while the table holds two
\* rows, one with a note and one without.
C21_Witness ==
  /\ response = Response("whitelistPATCH", 200, "")
  /\ \E r1, r2 \in emailWhitelist : r1.notes = "note" /\ r2.notes = NULL

\* Neither the domain rule nor a whitelist row admits the address, or there is
\* no address.
Denied(email) ==
  \/ email = NoEmail
  \/ ~AdmittedByDomain(email) /\ ToLowerCase(email) \notin WhitelistEmails

\* C22: a sign-in attempt that the callback denies, at the request for a link
\* or at its verification, leaves the user, session and whitelist tables as
\* they were, and the attempt does not go on to user or session creation.
C22_DeniedSignInHasNoEffect ==
  [][\A p \in Procs, e \in SignInEmails \cup {NoEmail} :
       (/\ response'.kind \in {"signIn", "signInRequest"} /\ response'.email = e
        /\ Denied(e)
        /\ (VerifyMagicLink(p, e) \/ RequestMagicLink(p, e))) =>
         /\ users' = users /\ sessions' = sessions
         /\ emailWhitelist' = emailWhitelist
         /\ req' = req
         /\ response'.error = "AccessDenied"]_vars

\* C22 witness: a verification has just been denied for an address that has no
\* user, while another user and a whitelist row exist.
C22_Witness ==
  /\ response.kind = "signIn" /\ response.error = "AccessDenied"
  /\ response.email = E_v_bc
  /\ users # {} /\ emailWhitelist # {}
  /\ \A u \in users : u.email # E_v_bc

\* What a denied attempt shows, at the sign-in page and at the error page.
GenericDenial ==
  {[NoResponse EXCEPT
      !.kind = "signInRequest", !.status = 200, !.error = "AccessDenied",
      !.message = "This email is not authorized to access this application. Please contact an administrator."],
   [NoResponse EXCEPT
      !.kind = "signIn", !.status = 302, !.error = "AccessDenied",
      !.location = "/auth/error",
      !.message = "This email is not authorized to access ${appName}. Please contact an administrator for access."]}

\* C23: whatever address was denied and whatever domains and whitelist rows led
\* to the denial, the outcome of a denied attempt is one and the same for its
\* entry point: the error AccessDenied and the page's one message for it.
C23_DenialIsGeneric ==
  (response.kind \in {"signIn", "signInRequest"} /\ response.error # "") =>
    [response EXCEPT !.email = NoEmail] \in GenericDenial

\* C23 witness: an address was denied by both checks, the domain list and the
\* whitelist being non-empty.
C23_Witness ==
  /\ response.kind = "signInRequest" /\ response.error = "AccessDenied"
  /\ response.email = E_v_bc
  /\ AllowedDomainSet # {} /\ WhitelistEmails = {E_w_bc}

\* C24: a call of callbacks.signIn for a user without email is denied, with no
\* whitelist query, whatever the domain list and the table hold; no user and no
\* session exists after it.
C24_AbsentEmailDenied ==
  (call.fn = "signIn" /\ call.email = NoEmail) =>
    /\ call.result = FALSE /\ call.queries = 0
    /\ users = {} /\ sessions = {}

\* C24 witness: the callback has denied a user without email while the domain
\* list and the whitelist are non-empty.
C24_Witness ==
  /\ call.fn = "signIn" /\ call.email = NoEmail /\ call.result = FALSE
  /\ AllowedDomainSet # {} /\ WhitelistEmails # {}

\* The mail domain of an address: the characters after its last "@".
DomainAfterLastAt(s) ==
  IF AtPositions(s) = {} THEN Undefined
  ELSE LET last == CHOOSE i \in AtPositions(s) : \A j \in AtPositions(s) : i >= j
       IN SubSeq(s, last + 1, Len(s))

\* C25 as stated: an address with more than one "@" whose mail domain (after the
\* last "@") is not an allowed domain is not admitted by the domain rule, so
\* that isEmailAllowed returns true for it only through a whitelist row, and
\* createUser does not make it an admin.
C25_DomainIsAfterLastAt ==
  (/\ call.fn \in {"isEmailAllowed", "createUser"}
   /\ Cardinality(AtPositions(call.email)) > 1
   /\ DomainAfterLastAt(call.email) \notin AllowedDomainSet) =>
    /\ call.fn = "createUser" => call.result = FALSE
    /\ call.fn = "isEmailAllowed" =>
         (call.result = TRUE => ToLowerCase(call.email) \in WhitelistEmails)

Admins == {u \in users : u.isAdmin}

\* C26: when every PATCH /api/admin/users/[id] runs as one step, the user table
\* keeps at least one admin after any sequence of them, by any session, on any
\* target, with any body.
C26_AtomicPatchKeepsAnAdmin == Admins # {}

\* C26 witness: a PATCH has just succeeded and one admin is left among three
\* users, all of whom hold sessions.
C26_Witness ==
  /\ response = Response("usersPATCH", 200, "")
  /\ Cardinality(users) = 3 /\ Cardinality(Admins) = 1
  /\ sessions = {u.id : u \in users}

\* C27 as stated: with the session check and the update of a PATCH as separate
\* steps that interleave with those of other requests, a step from a state with
\* an admin leads to a state with an admin.
C27_InterleavedPatchKeepsAnAdmin == [][Admins # {} => Admins' # {}]_vars

\* C28: an admin-only API request that starts under the session of a user whose
\* isAdmin is false in the user table at that moment (or who has no row) is
\* answered 401 and goes no further, whatever the user's isAdmin was before.
C28_RevocationTakesEffect ==
  [][\A p \in Procs, actor \in UserIds :
       (/\ response = NoResponse /\ req[p].pc = "idle"
        /\ actor \in sessions
        /\ \A u \in users : u.id = actor => ~u.isAdmin) =>
         \A kind \in AdminKinds :
           Auth(p, kind, actor) => (response' = Unauthorized(kind) /\ req' = req)]_vars

\* C28 witness: a request has just been answered 401 while a user who was
\* created as an admin holds a session and is an admin no more, and no other
\* request is in flight.
C28_Witness ==
  /\ response = Unauthorized("whitelistPATCH")
  /\ \E u \in users : u.id \in sessions /\ AdmittedByDomain(u.email) /\ ~u.isAdmin
  /\ \A q \in Procs : req[q] = Idle

\* The path begins with the six characters of "/admin".
IsAdminPath(pathname) ==
  /\ Len(pathname) >= 6
  /\ pathname[1] = "/" /\ pathname[2] = "a" /\ pathname[3] = "d"
  /\ pathname[4] = "m" /\ pathname[5] = "i" /\ pathname[6] = "n"

\* C29: for a path that starts with /admin the middleware redirects a request
\* without a session to /auth/signin and one whose session user is no admin to
\* /, and lets the request proceed only when its session user is an admin; for
\* any other path it lets the request proceed.
C29_MiddlewareGuardsAdminPaths ==
  [][\A pathname \in Paths, actor \in AtomicUserIds \cup {NoSession} :
       Middleware(pathname, actor) =>
         /\ response'.kind = "middleware"
         /\ IF ~IsAdminPath(pathname) THEN response'.location = ""
            ELSE IF actor \notin sessions THEN response'.location = "/auth/signin"
            ELSE IF ~IsAdminSession(actor) THEN response'.location = "/"
            ELSE response'.location = ""
         /\ response'.status = IF response'.location = "" THEN 200 ELSE 307]_vars

\* C29 witness: a request was just redirected to / while a user who is no admin
\* holds a session.
C29_Witness ==
  /\ response = MiddlewareResponse("/")
  /\ \E u \in users : u.id \in sessions /\ ~u.isAdmin

(***************************************************************************)
(* src/lib/services/llm/llm.ts: answerStructured                           *)
(***************************************************************************)

\* Largest maxRetries a call is made with.
MaxRetriesInput == 4

\* JSON values of the keys: strings, numbers, a boolean.
IsString(v) == v \in {"s:Ann", "s:Bob"}
IsNumber(v) == v \in {"n:1", "n:2"}

Json(name, age, extra) == [name |-> name, age |-> age, extra |-> extra]

\* What one generation request may come back with: the provider call throws, or
\* chatCompletion.choices[0]?.message?.content is absent, "", text that is no
\* JSON, or the text of a JSON object.
ProviderThrows == [kind |-> "throws", json |-> NoValue]
ContentAbsent == [kind |-> "absent", json |-> NoValue]
ContentEmpty == [kind |-> "empty", json |-> NoValue]
ContentProse == [kind |-> "prose", json |-> NoValue]
ContentJson(json) == [kind |-> "json", json |-> json]

Completions ==
  {ProviderThrows, ContentAbsent, ContentEmpty, ContentProse,
   ContentJson(Json("s:Ann", "absent", "absent")),
   ContentJson(Json("s:Ann", "s:Bob", "absent")),
   ContentJson(Json("s:Ann", "n:1", "absent")),
   ContentJson(Json("s:Bob", "n:2", "b:true"))}

\* !content
ContentMissing(completion) == completion.kind \in {"absent", "empty"}

\* JSON.parse(content): throws a SyntaxError on text that is no JSON
JsonParseThrows(completion) == completion.kind # "json"

\* A plausible slip: the parsed JSON is returned without validation.
SchemaAcceptsAnything(json) == TRUE

\* responseSchema.parse(parsedJson), for the schema
\* z.object({ name: z.string(), age: z.number() }): whether it accepts
SchemaAccepts(json) == IsString(json.name) /\ IsNumber(json.age)

\* A plausible slip: the parsed JSON is returned in place of the validated data.
SchemaOutputUnstripped(json) == json

\* responseSchema.parse(parsedJson): the validated data; z.object strips the keys
\* the schema does not name
SchemaOutput(json) == [json EXCEPT !.extra = "absent"]

\* The error an attempt ends with, "none" when it returns a value.
AttemptError(completion) ==
  IF completion.kind = "throws" THEN "provider error"
  ELSE IF ContentMissing(completion) THEN "No response content from LLM"
  ELSE IF JsonParseThrows(completion) THEN "SyntaxError"
  ELSE IF ~SchemaAccepts(completion.json) THEN "ZodError"
  ELSE "none"

\* A plausible slip: the loop runs while attempt <= maxRetries.
LoopConditionInclusive(attempt, maxRetries) == attempt <= maxRetries

\* attempt < maxRetries
LoopCondition(attempt, maxRetries) == attempt < maxRetries

\* A plausible slip: maxRetries is taken as the number of retries.
IsFinalAttemptCountsRetries(attempt, maxRetries) == attempt = maxRetries

\* A plausible slip: the wait comes before the test for the final attempt.
IsFinalAttemptAfterWait(attempt, maxRetries) == FALSE

\* attempt === maxRetries - 1
IsFinalAttempt(attempt, maxRetries) == attempt = maxRetries - 1

\* A plausible slip: the check of the content is outside the try block.
CaughtUnlessNoContent(error) == error # "No response content from LLM"

\* catch (error): whatever the try block throws is caught
Caught(error) == TRUE

\* A plausible slip: lastError ||= error, which keeps the first failure.
NextLastErrorKeepFirst(lastError, error) ==
  IF lastError = "undefined" THEN error ELSE lastError

\* lastError = error as Error
NextLastError(lastError, error) == error

\* A plausible slip: the instructions are appended to the prompts of the
\* previous attempt.
RequestMessagesAccumulating(attempt) ==
  [system |-> <<"systemPrompt", "schemaInstruction">> \o
                [i \in 1..attempt |-> "retryInstruction"],
   user |-> <<"userPrompt">> \o [i \in 1..attempt |-> "reminder"]]

\* A plausible slip: only the system prompt carries the instruction.
RequestMessagesSystemOnly(attempt) ==
  [system |-> <<"systemPrompt", "schemaInstruction">> \o
                (IF attempt > 0 THEN <<"retryInstruction">> ELSE <<>>),
   user |-> <<"userPrompt">>]

\* The messages of one request: the prompts, part by part.
RequestMessages(attempt) ==
  [system |-> <<"systemPrompt", "schemaInstruction">> \o
                (IF attempt > 0 THEN <<"retryInstruction">> ELSE <<>>),
   user |-> <<"userPrompt">> \o (IF attempt > 0 THEN <<"reminder">> ELSE <<>>)]

\* new Error(`Failed to get valid structured response after ${maxRetries}
\* attempts. Last error: ${lastError.message}`)
ExhaustedError(maxRetries, lastError) ==
  [message |-> "Failed to get valid structured response after ${maxRetries} attempts. Last error: ${lastError.message}",
   maxRetries |-> maxRetries, lastError |-> lastError]

\* A plausible slip: the delay doubles, 1000 * 2 ** attempt.
RetryDelayExponential(attempt) == 1000 * 2 ^ attempt

\* 1000 * (attempt + 1)
RetryDelay(attempt) == 1000 * (attempt + 1)

InitLLM ==
  /\ allowedEmailDomains = <<>>
  /\ emailWhitelist = {}
  /\ users = {}
  /\ sessions = {}
  /\ req = [p \in Procs |-> Idle]
  /\ response = NoResponse
  /\ call = NoCall
  /\ \E maxRetries \in 0..MaxRetriesInput :
       llm = [NoLlmCall EXCEPT !.pc = "loop", !.maxRetries = maxRetries]

\* One iteration of the for loop: the request is issued, the completion is
\* checked, and the iteration returns, throws or starts the wait.
Attempt(completion) ==
  /\ llm.pc = "loop" /\ LoopCondition(llm.attempt, llm.maxRetries)
  /\ LET sent == [llm EXCEPT !.requests = Append(@, RequestMessages(llm.attempt)),
                             !.responses = Append(@, completion)]
         error == AttemptError(completion)
     IN IF error = "none"
        THEN llm' = [sent EXCEPT !.pc = "returned",
                                 !.value = SchemaOutput(completion.json)]
        ELSE IF ~Caught(error)
        THEN llm' = [sent EXCEPT !.pc = "thrown",
                                 !.error = [NoError EXCEPT !.message = error]]
        ELSE LET lastError == NextLastError(llm.lastError, error)
             IN IF IsFinalAttempt(llm.attempt, llm.maxRetries)
                THEN llm' = [sent EXCEPT !.pc = "thrown", !.lastError = lastError,
                                         !.error = ExhaustedError(llm.maxRetries, lastError)]
                ELSE llm' = [sent EXCEPT !.pc = "waiting", !.lastError = lastError,
                                         !.waits = Append(@, RetryDelay(llm.attempt))]
  /\ UNCHANGED <<allowedEmailDomains, emailWhitelist, users, sessions, req, response, call>>

\* The timer of the wait fires: attempt++
Retry ==
  /\ llm.pc = "waiting"
  /\ llm' = [llm EXCEPT !.pc = "loop", !.attempt = @ + 1]
  /\ UNCHANGED <<allowedEmailDomains, emailWhitelist, users, sessions, req, response, call>>

\* The loop condition fails: throw lastError || new Error("Unexpected error ...")
LoopExit ==
  /\ llm.pc = "loop" /\ ~LoopCondition(llm.attempt, llm.maxRetries)
  /\ llm' = [llm EXCEPT !.pc = "thrown",
                        !.error = IF llm.lastError # "undefined"
                                  THEN [NoError EXCEPT !.message = llm.lastError]
                                  ELSE [NoError EXCEPT !.message =
                                          "Unexpected error in answerStructured"]]
  /\ UNCHANGED <<allowedEmailDomains, emailWhitelist, users, sessions, req, response, call>>

NextLLM ==
  \/ \E completion \in Completions : Attempt(completion)
  \/ Retry
  \/ LoopExit

SpecLLM == InitLLM /\ [][NextLLM]_vars

\* Every provider call returns or throws, every timer fires and the loop goes
\* on: a step that can be taken is taken.
SpecLLMFair == SpecLLM /\ WF_vars(NextLLM)

\* A completion that is non-empty, parses as JSON and conforms to the schema.
IsValidCompletion(completion) ==
  /\ completion.kind = "json"
  /\ completion.json.name \in {"s:Ann", "s:Bob"}
  /\ completion.json.age \in {"n:1", "n:2"}

\* C10: answerStructured has returned only if the last completion received was
\* non-empty, parsed and passed validation; the value returned is that
\* completion's validated data (the schema's keys, with its values); no earlier
\* completion was valid; and no request was issued after it.
C10_ReturnsFirstValidatedAttempt ==
  llm.pc = "returned" =>
    LET k == Len(llm.responses)
    IN /\ k >= 1 /\ Len(llm.requests) = k
       /\ IsValidCompletion(llm.responses[k])
       /\ llm.value = Json(llm.responses[k].json.name, llm.responses[k].json.age, "absent")
       /\ \A j \in 1..(k - 1) : ~IsValidCompletion(llm.responses[j])

\* C10 witness: the call returned on its second attempt, after an invalid first
\* completion, with the validated data of the second.
C10_Witness ==
  /\ llm.pc = "returned" /\ Len(llm.responses) = 2
  /\ llm.responses[1] = ContentProse
  /\ llm.responses[2] = ContentJson(Json("s:Bob", "n:2", "b:true"))
  /\ llm.value = Json("s:Bob", "n:2", "absent")

\* The attempts made so far that failed, by their 1-based number.
FailedAttempts == {k \in 1..Len(llm.responses) : ~IsValidCompletion(llm.responses[k])}

\* C11: one call issues at most maxRetries generation requests, exactly
\* maxRetries once it has failed for good; a request is issued only after every
\* earlier one was answered and failed; and the request that brings the count
\* to maxRetries ends the call whatever its outcome (with maxRetries = 1 a single
\* failure ends it, with no wait and no second request).
C11_MaxRetriesBoundsAttempts ==
  /\ Len(llm.requests) <= llm.maxRetries
  /\ Len(llm.requests) = Len(llm.responses)
  /\ \A k \in 1..(Len(llm.requests) - 1) : k \in FailedAttempts
  /\ llm.pc = "thrown" =>
       (Len(llm.requests) = llm.maxRetries /\ FailedAttempts = 1..llm.maxRetries)
  /\ (llm.maxRetries >= 1 /\ Len(llm.requests) = llm.maxRetries) =>
       llm.pc \in {"returned", "thrown"}
  /\ (llm.maxRetries = 1 /\ FailedAttempts = {1}) =>
       (llm.pc = "thrown" /\ llm.waits = <<>>)

\* C11 witness: a call with maxRetries = 3 has failed after three requests.
C11_Witness ==
  /\ llm.pc = "thrown" /\ llm.maxRetries = 3
  /\ Len(llm.requests) = 3 /\ FailedAttempts = {1, 2, 3}

\* C12: the k-th wait of a call, which follows the failure of attempt k (not the
\* final one), lasts 1000 * k milliseconds.
C12_LinearBackoff ==
  \A k \in 1..Len(llm.waits) :
    /\ llm.waits[k] = 1000 * k
    /\ k \in FailedAttempts /\ k < llm.maxRetries

\* C12 witness: three waits were made, of 1000, 2000 and 3000 ms.
C12_Witness == llm.waits = <<1000, 2000, 3000>>

\* C13: the waits made so far are as many as the failed attempts that were not
\* the final allowed attempt; a call that returned on attempt k made k - 1
\* waits, and one that exhausted maxRetries >= 1 attempts made maxRetries - 1.
C13_WaitsCountNonFinalFailures ==
  /\ Len(llm.waits) = Cardinality(FailedAttempts \ {llm.maxRetries})
  /\ llm.pc = "returned" => Len(llm.waits) = Len(llm.responses) - 1
  /\ (llm.pc = "thrown" /\ llm.maxRetries >= 1) => Len(llm.waits) = llm.maxRetries - 1

\* C13 witness: invalid JSON on the first attempt and a valid object on the
\* second; the call has returned after exactly one wait.
C13_Witness ==
  /\ llm.pc = "returned"
  /\ llm.responses = <<ContentProse, ContentJson(Json("s:Ann", "n:1", "absent"))>>
  /\ Len(llm.waits) = 1

\* The message of the error a failed completion makes its attempt end with.
FailureMessage(completion) ==
  CASE completion.kind = "throws" -> "provider error"
    [] completion.kind \in {"absent", "empty"} -> "No response content from LLM"
    [] completion.kind = "prose" -> "SyntaxError"
    [] OTHER -> "ZodError"

\* The message of the attempts-exhausted error, before interpolation.
ExhaustedMessage ==
  "Failed to get valid structured response after ${maxRetries} attempts. Last error: ${lastError.message}"

\* C14: a call whose maxRetries >= 1 attempts all failed has thrown the
\* attempts-exhausted error, whose message carries the configured maxRetries and
\* the message of the failure of the last attempt.
C14_ExhaustedErrorWrapsLastFailure ==
  (llm.pc = "thrown" /\ llm.maxRetries >= 1) =>
    /\ llm.error.message = ExhaustedMessage
    /\ llm.error.maxRetries = llm.maxRetries
    /\ llm.error.lastError = FailureMessage(llm.responses[llm.maxRetries])

\* C14 witness: two attempts failed in two ways, and the error thrown carries
\* the second failure.
C14_Witness ==
  /\ llm.pc = "thrown" /\ llm.maxRetries = 2
  /\ llm.responses = <<ContentProse, ContentAbsent>>
  /\ llm.error.lastError = "No response content from LLM"

\* C15: an attempt answered with empty or absent content is followed by a wait
\* (and so by a retry) when it is not the final attempt, and by the
\* attempts-exhausted error when it is: what a parse or validation failure is
\* followed by.
C15_MissingContentIsRetried ==
  [][LET k == Len(llm.responses')
     IN (k = Len(llm.responses) + 1 /\ llm.responses'[k].kind \in {"absent", "empty"}) =>
          /\ k < llm.maxRetries =>
               (llm.pc' = "waiting" /\ llm.waits' = Append(llm.waits, 1000 * k))
          /\ k = llm.maxRetries =>
               /\ llm.pc' = "thrown" /\ llm.waits' = llm.waits
               /\ llm.error'.message = ExhaustedMessage
               /\ llm.error'.maxRetries = llm.maxRetries]_vars

\* C15 witness: the call returned on its third attempt, after one attempt with
\* absent and one with empty content.
C15_Witness ==
  /\ llm.pc = "returned" /\ Len(llm.responses) = 3
  /\ llm.responses[1] = ContentAbsent /\ llm.responses[2] = ContentEmpty

\* C16: the first request carries the system prompt with the schema instruction
\* and the user prompt, and nothing else; every later one carries these and one
\* retry instruction after each.
C16_RetryInstructionOnLaterAttempts ==
  \A k \in 1..Len(llm.requests) :
    IF k = 1
    THEN /\ llm.requests[k].system = <<"systemPrompt", "schemaInstruction">>
         /\ llm.requests[k].user = <<"userPrompt">>
    ELSE /\ llm.requests[k].system =
              <<"systemPrompt", "schemaInstruction", "retryInstruction">>
         /\ llm.requests[k].user = <<"userPrompt", "reminder">>

\* C16 witness: a first request and two retries were sent.
C16_Witness == Len(llm.requests) = 3 /\ llm.pc = "returned"

\* s is t followed by something more.
Extends(s, t) == Len(s) > Len(t) /\ SubSeq(s, 1, Len(t)) = t

C18_ExponentialBackoff ==
  \A k \in 2..Len(llm.waits) :
    llm.waits[k] > llm.waits[k - 1] /\ llm.waits[k] = 2 * llm.waits[k - 1]

\* C30: a call with maxRetries = 0 issues no request, makes no wait and never
\* returns a value; and every call, whatever its maxRetries, ends: it returns
\* or throws.
C30_ZeroRetriesFailsAndCallsEnd ==
  /\ [](llm.maxRetries = 0 =>
          (llm.requests = <<>> /\ llm.waits = <<>> /\ llm.pc # "returned"))
  /\ <>(llm.pc \in {"returned", "thrown"})
  /\ [](llm.pc \in {"returned", "thrown"} => [](llm.pc \in {"returned", "thrown"}))

\* C30 witness: a call with maxRetries = 0 has thrown without a request.
C30_Witness ==
  /\ llm.maxRetries = 0 /\ llm.pc = "thrown"
  /\ llm.requests = <<>> /\ llm.waits = <<>>
  /\ llm.error.message = "Unexpected error in answerStructured"

====
